---- MODULE Spec2Model ----
(***************************************************************************)
(* Model of the configuration accessor of py3-utils (src/configure.py).    *)
(*                                                                         *)
(* Strings whose characters matter to the code (keys, values, operator     *)
(* input) are sequences of one-character strings, so that the conversions  *)
(* the code and the INI store apply to them (str.upper, optionxform, the   *)
(* strip of a value on parsing, %-interpolation, int(), float(), str())    *)
(* are computed character by character.  Section names and paths are       *)
(* plain strings: the code only tests them for emptiness and equality.     *)
(*                                                                         *)
(* Scope of the store model: single-line values, no DEFAULT section, no    *)
(* %(name)s references, floats with one fractional digit.                  *)
(***************************************************************************)
EXTENDS Integers, Sequences, FiniteSets, TLC

(***************************************************************************)
(* Characters                                                              *)
(***************************************************************************)
Digits == <<"0", "1", "2", "3", "4", "5", "6", "7", "8", "9">>
LowerAlpha == <<"a", "b", "c", "d", "e", "f", "g", "h", "i", "j", "k", "l", "m",
                "n", "o", "p", "q", "r", "s", "t", "u", "v", "w", "x", "y", "z">>
UpperAlpha == <<"A", "B", "C", "D", "E", "F", "G", "H", "I", "J", "K", "L", "M",
                "N", "O", "P", "Q", "R", "S", "T", "U", "V", "W", "X", "Y", "Z">>

InSeq(c, t) == \E i \in 1..Len(t) : t[i] = c
IndexIn(c, t) == CHOOSE i \in 1..Len(t) : t[i] = c

IsDigit(c) == InSeq(c, Digits)
DigitVal(c) == IndexIn(c, Digits) - 1

\* The code point of a character (the order Python compares strings by).
Ord(c) ==
    IF InSeq(c, Digits) THEN 47 + IndexIn(c, Digits)
    ELSE IF InSeq(c, UpperAlpha) THEN 64 + IndexIn(c, UpperAlpha)
    ELSE IF InSeq(c, LowerAlpha) THEN 96 + IndexIn(c, LowerAlpha)
    ELSE IF c = " " THEN 32
    ELSE IF c = "%" THEN 37
    ELSE IF c = "+" THEN 43
    ELSE IF c = "-" THEN 45
    ELSE IF c = "." THEN 46
    ELSE 127

UpperChar(c) == IF InSeq(c, LowerAlpha) THEN UpperAlpha[IndexIn(c, LowerAlpha)] ELSE c
LowerChar(c) == IF InSeq(c, UpperAlpha) THEN LowerAlpha[IndexIn(c, UpperAlpha)] ELSE c

\* str.upper() / str.lower()
Upper(s) == [i \in 1..Len(s) |-> UpperChar(s[i])]
Lower(s) == [i \in 1..Len(s) |-> LowerChar(s[i])]

\* str.strip(): leading and trailing blanks removed.
RECURSIVE LStrip(_)
LStrip(s) == IF s # <<>> /\ Head(s) = " " THEN LStrip(Tail(s)) ELSE s
RECURSIVE RStrip(_)
RStrip(s) == IF s # <<>> /\ s[Len(s)] = " " THEN RStrip(SubSeq(s, 1, Len(s) - 1)) ELSE s
Strip(s) == RStrip(LStrip(s))

\* Python's < on strings: lexicographic by code point.
RECURSIVE StrLess(_, _)
StrLess(a, b) ==
    IF b = <<>> THEN FALSE
    ELSE IF a = <<>> THEN TRUE
    ELSE IF Head(a) # Head(b) THEN Ord(Head(a)) < Ord(Head(b))
    ELSE StrLess(Tail(a), Tail(b))

(***************************************************************************)
(* Python values: None, str, bool, int, float (a float is held as its      *)
(* number of tenths, so 1.5 is 15 and 42.0 is 420).                        *)
(***************************************************************************)
NoneV == [t |-> "none", s |-> <<>>, i |-> 0, b |-> FALSE]
StrV(x) == [t |-> "str", s |-> x, i |-> 0, b |-> FALSE]
IntV(n) == [t |-> "int", s |-> <<>>, i |-> n, b |-> FALSE]
BoolV(x) == [t |-> "bool", s |-> <<>>, i |-> 0, b |-> x]
FloatV(n) == [t |-> "float", s |-> <<>>, i |-> n, b |-> FALSE]

RECURSIVE NatToStr(_)
NatToStr(n) == IF n < 10 THEN <<Digits[n + 1]>> ELSE NatToStr(n \div 10) \o <<Digits[(n % 10) + 1]>>
IntToStr(n) == IF n < 0 THEN <<"-">> \o NatToStr(-n) ELSE NatToStr(n)

\* str(v)
PyStr(v) ==
    CASE v.t = "none" -> <<"N", "o", "n", "e">>
      [] v.t = "str" -> v.s
      [] v.t = "bool" -> IF v.b THEN <<"T", "r", "u", "e">> ELSE <<"F", "a", "l", "s", "e">>
      [] v.t = "int" -> IntToStr(v.i)
      [] v.t = "float" ->
            (IF v.i < 0 THEN <<"-">> ELSE <<>>)
            \o NatToStr((IF v.i < 0 THEN -v.i ELSE v.i) \div 10)
            \o <<".">> \o NatToStr((IF v.i < 0 THEN -v.i ELSE v.i) % 10)

AllDigits(s) == s # <<>> /\ \A i \in 1..Len(s) : IsDigit(s[i])
RECURSIVE DigitsVal(_)
DigitsVal(s) == IF s = <<>> THEN 0 ELSE 10 * DigitsVal(SubSeq(s, 1, Len(s) - 1)) + DigitVal(s[Len(s)])

HasSign(s) == s # <<>> /\ Head(s) \in {"+", "-"}
Unsigned(s) == IF HasSign(s) THEN Tail(s) ELSE s
Signed(s, n) == IF HasSign(s) /\ Head(s) = "-" THEN -n ELSE n

\* int(s, 10) of a str: blanks around, an optional sign, decimal digits.
IntParses(s) == AllDigits(Unsigned(Strip(s)))
IntParse(s) == Signed(Strip(s), DigitsVal(Unsigned(Strip(s))))

\* float(s) of a str, for numerals with at most one fractional digit:
\* digits, optionally a point and one more digit; the value in tenths.
PointAt(s) == IF InSeq(".", s) THEN IndexIn(".", s) ELSE 0
FloatBodyParses(u) ==
    LET p == PointAt(u) IN
    IF p = 0 THEN AllDigits(u)
    ELSE /\ \A i \in 1..(p - 1) : IsDigit(u[i])
         /\ Len(u) - p <= 1
         /\ \A i \in (p + 1)..Len(u) : IsDigit(u[i])
         /\ Len(u) > 1
FloatBody(u) ==
    LET p == PointAt(u) IN
    IF p = 0 THEN 10 * DigitsVal(u)
    ELSE 10 * DigitsVal(SubSeq(u, 1, p - 1)) + DigitsVal(SubSeq(u, p + 1, Len(u)))
FloatParses(s) == FloatBodyParses(Unsigned(Strip(s)))
FloatParse(s) == Signed(Strip(s), FloatBody(Unsigned(Strip(s))))

(***************************************************************************)
(* The INI store (configparser.ConfigParser with its defaults: keys are    *)
(* lower-cased, BasicInterpolation is on).  A store is the sequence of its *)
(* sections in insertion order, each with its options in insertion order.  *)
(***************************************************************************)
EmptyStore == <<>>

\* ConfigParser.optionxform
optionxform(k) == Lower(k)

SectionNames(cfg) == {cfg[i].name : i \in 1..Len(cfg)}
HasSection(cfg, sec) == sec \in SectionNames(cfg)
SectionAt(cfg, sec) == CHOOSE i \in 1..Len(cfg) : cfg[i].name = sec
OptionsOf(cfg, sec) == cfg[SectionAt(cfg, sec)].opts
OptKeys(opts) == {opts[i].k : i \in 1..Len(opts)}
OptAt(opts, k) == CHOOSE i \in 1..Len(opts) : opts[i].k = k
HasOption(cfg, sec, k) == HasSection(cfg, sec) /\ k \in OptKeys(OptionsOf(cfg, sec))
RawValue(cfg, sec, k) == LET o == OptionsOf(cfg, sec) IN o[OptAt(o, k)].v

\* dict assignment: an existing key keeps its place, a new one goes last.
SetOpt(opts, k, v) ==
    IF k \in OptKeys(opts)
    THEN [opts EXCEPT ![OptAt(opts, k)] = [k |-> k, v |-> v]]
    ELSE Append(opts, [k |-> k, v |-> v])
DelOpt(opts, k) == SelectSeq(opts, LAMBDA o : o.k # k)

WithOptions(cfg, sec, opts) == [cfg EXCEPT ![SectionAt(cfg, sec)].opts = opts]
add_section(cfg, sec) == Append(cfg, [name |-> sec, opts |-> <<>>])
remove_option(cfg, sec, k) == WithOptions(cfg, sec, DelOpt(OptionsOf(cfg, sec), optionxform(k)))
\* RawConfigParser.set on an existing section, the value already validated.
StoreSet(cfg, sec, k, v) == WithOptions(cfg, sec, SetOpt(OptionsOf(cfg, sec), optionxform(k), v))

\* BasicInterpolation.before_get: "%%" reads as "%", any other "%" is an
\* InterpolationSyntaxError.
RECURSIVE InterpolationOk(_)
InterpolationOk(s) ==
    IF s = <<>> THEN TRUE
    ELSE IF Head(s) # "%" THEN InterpolationOk(Tail(s))
    ELSE Len(s) >= 2 /\ s[2] = "%" /\ InterpolationOk(Tail(Tail(s)))
RECURSIVE Interpolate(_)
Interpolate(s) ==
    IF s = <<>> THEN <<>>
    ELSE IF Head(s) # "%" THEN <<Head(s)>> \o Interpolate(Tail(s))
    ELSE <<"%">> \o Interpolate(Tail(Tail(s)))
\* BasicInterpolation.before_set: once every "%%" is taken out, no "%" may
\* be left, or set() raises ValueError.
SetValueOk(s) == InterpolationOk(s)

\* How a value comes back from the file: "key = value" lines are parsed
\* with the value stripped.
FileValue(v) == Strip(v)
FileOpts(opts) == [i \in 1..Len(opts) |-> [k |-> opts[i].k, v |-> FileValue(opts[i].v)]]
\* ConfigParser.write followed by a parse of the text: what the file holds.
FileForm(cfg) == [i \in 1..Len(cfg) |-> [name |-> cfg[i].name, opts |-> FileOpts(cfg[i].opts)]]

\* ConfigParser.read: the file is merged INTO the store; nothing the store
\* holds is dropped.
RECURSIVE MergeOpts(_, _)
MergeOpts(opts, new) ==
    IF new = <<>> THEN opts
    ELSE MergeOpts(SetOpt(opts, Head(new).k, Head(new).v), Tail(new))
RECURSIVE ReadInto(_, _)
ReadInto(cfg, data) ==
    IF data = <<>> THEN cfg
    ELSE LET sec == Head(data).name
             c1 == IF HasSection(cfg, sec) THEN cfg ELSE add_section(cfg, sec)
         IN ReadInto(WithOptions(c1, sec, MergeOpts(OptionsOf(c1, sec), Head(data).opts)),
                     Tail(data))

\* sorted(..., key=lambda x: x[0])
RECURSIVE InsertSorted(_, _)
InsertSorted(o, sorted) ==
    IF sorted = <<>> THEN <<o>>
    ELSE IF StrLess(o.k, Head(sorted).k) THEN <<o>> \o sorted
    ELSE <<Head(sorted)>> \o InsertSorted(o, Tail(sorted))
\* _save without its sort: the options stay in the order they are stored in.
SortOptsAsStored(opts) == opts
RECURSIVE SortOpts(_)
SortOpts(opts) == IF opts = <<>> THEN <<>> ELSE InsertSorted(opts[Len(opts)], SortOpts(SubSeq(opts, 1, Len(opts) - 1)))

IsSortedOpts(opts) == \A i \in 1..(Len(opts) - 1) : StrLess(opts[i].k, opts[i + 1].k)

(***************************************************************************)
(* The accessor.  A machine m is [config: the in-memory store, fs: the     *)
(* files, reloaded: the store as the last _reload left it, saved: whether  *)
(* a _save has completed in the current call].  A method yields            *)
(* [m, out]: the machine it leaves and how it ended (a returned value, an  *)
(* exception that reaches the caller, or exit(1)).                         *)
(***************************************************************************)
ConfigPath == "config.ini"
OtherPath == "export.ini"
Paths == {ConfigPath, OtherPath}

NoFile == [exists |-> FALSE, data |-> EmptyStore]
FileOf(data) == [exists |-> TRUE, data |-> data]

Ok(v) == [kind |-> "ok", val |-> v, exc |-> ""]
Raised(e) == [kind |-> "raise", val |-> NoneV, exc |-> e]
Exited == [kind |-> "exit", val |-> NoneV, exc |-> "SystemExit"]
Res(m, out) == [m |-> m, out |-> out]

\* self._config.get(section, key) finds the option (else NoSectionError or
\* NoOptionError).
Present(cfg, section, key) == HasOption(cfg, section, optionxform(key))

\* export without its test of the target: it always writes.
exportOverwriting(m, configure_path, force) ==
    Res([m EXCEPT !.fs[configure_path] = FileOf(FileForm(m.config))], Ok(BoolV(TRUE)))

export(m, configure_path, force) ==
    IF m.fs[configure_path].exists /\ ~force
    THEN Res(m, Ok(BoolV(FALSE)))
    ELSE Res([m EXCEPT !.fs[configure_path] = FileOf(FileForm(m.config))], Ok(BoolV(TRUE)))

\* _reload with force_quit=True, as every read and write calls it.
_reload(m) ==
    IF m.fs[ConfigPath].exists
    THEN LET cfg == ReadInto(m.config, m.fs[ConfigPath].data)
         IN Res([m EXCEPT !.config = cfg, !.reloaded = cfg], Ok(NoneV))
    ELSE Res(m, Exited)

\* The inner loop of _save for one section: each (k, v) of the sorted,
\* interpolated items is removed and set again; set() validates v.
RECURSIVE ResetOpts(_, _, _)
ResetOpts(cfg, section, items) ==
    IF items = <<>> THEN [cfg |-> cfg, exc |-> ""]
    ELSE LET k == Head(items).k
             v == Head(items).v
             removed == remove_option(cfg, section, k)
         IN IF ~SetValueOk(v) THEN [cfg |-> removed, exc |-> "ValueError"]
            ELSE ResetOpts(StoreSet(removed, section, k, v), section, Tail(items))

\* self._config.items(section): every value interpolated.
Items(opts) == [i \in 1..Len(opts) |-> [k |-> opts[i].k, v |-> Interpolate(opts[i].v)]]
ItemsOk(opts) == \A i \in 1..Len(opts) : InterpolationOk(opts[i].v)

RECURSIVE SortSections(_, _)
SortSections(cfg, i) ==
    IF i > Len(cfg) THEN [cfg |-> cfg, exc |-> ""]
    ELSE IF ~ItemsOk(cfg[i].opts) THEN [cfg |-> cfg, exc |-> "InterpolationSyntaxError"]
    ELSE LET r == ResetOpts(cfg, cfg[i].name, SortOpts(Items(cfg[i].opts)))
         IN IF r.exc # "" THEN r ELSE SortSections(r.cfg, i + 1)

_save(m) ==
    LET r == SortSections(m.config, 1) IN
    IF r.exc # "" THEN Res([m EXCEPT !.config = r.cfg], Raised(r.exc))
    ELSE Res([m EXCEPT !.config = r.cfg, !.fs[ConfigPath] = FileOf(FileForm(r.cfg)),
                       !.saved = TRUE],
             Ok(NoneV))

write(m, section, key, value, store) ==
    LET r == _reload(m) IN
    IF r.out.kind # "ok" THEN r
    ELSE IF section = "" \/ key = <<>> THEN Res(r.m, Exited)
    ELSE IF ~SetValueOk(value) THEN Res(r.m, Raised("ValueError"))
    ELSE LET c1 == IF HasSection(r.m.config, section) THEN r.m.config
                   ELSE add_section(r.m.config, section)
             m2 == [r.m EXCEPT !.config = StoreSet(c1, section, key, value)]
         IN IF store THEN _save(m2) ELSE Res(m2, Ok(NoneV))

_read_conf(m, section, key, default_val, required) ==
    LET r == _reload(m) IN
    IF r.out.kind # "ok" THEN r
    ELSE IF section = "" \/ key = <<>> THEN Res(r.m, Ok(NoneV))
    ELSE IF Present(r.m.config, section, key)
    THEN LET raw == RawValue(r.m.config, section, optionxform(key))
         IN IF InterpolationOk(raw) THEN Res(r.m, Ok(StrV(Interpolate(raw))))
            ELSE Res(r.m, Raised("InterpolationSyntaxError"))
    ELSE IF required /\ default_val = NoneV THEN Res(r.m, Ok(NoneV))
    ELSE Res(r.m, Ok(default_val))

\* The write-back without its test "is not None".
PersistDefaultUnchecked(r, section, key, value) ==
    IF Present(r.m.config, section, key) THEN Res(r.m, Ok(value))
    ELSE LET w == write(r.m, section, key, PyStr(value), TRUE)
         IN IF w.out.kind = "ok" THEN Res(w.m, Ok(value)) ELSE w

\* The tail shared by read, read_bool, read_float and read_int: when the
\* option is not in the store and a value was resolved, write it back.
PersistDefault(r, section, key, value) ==
    IF Present(r.m.config, section, key) \/ value = NoneV THEN Res(r.m, Ok(value))
    ELSE LET w == write(r.m, section, key, PyStr(value), TRUE)
         IN IF w.out.kind = "ok" THEN Res(w.m, Ok(value)) ELSE w

read(m, section, key, default_val, required) ==
    LET r == _read_conf(m, section, key, default_val, required) IN
    IF r.out.kind # "ok" THEN r
    ELSE PersistDefault(r, section, key, r.out.val)

TypedDefault(default_val, type) == IF default_val.t = type THEN default_val ELSE NoneV

read_bool(m, section, key, default_val, required) ==
    LET r == _read_conf(m, section, key, StrV(PyStr(default_val)), required) IN
    IF r.out.kind # "ok" THEN r
    ELSE LET value == r.out.val
             value_b == IF value.t # "str" THEN TypedDefault(default_val, "bool")
                        ELSE IF Upper(value.s) = <<"T", "R", "U", "E">> THEN BoolV(TRUE)
                        ELSE IF Upper(value.s) = <<"F", "A", "L", "S", "E">> THEN BoolV(FALSE)
                        ELSE TypedDefault(default_val, "bool")
         IN PersistDefault(r, section, key, value_b)

read_float(m, section, key, default_val, required) ==
    LET r == _read_conf(m, section, key, StrV(PyStr(default_val)), required) IN
    IF r.out.kind # "ok" THEN r
    ELSE LET value == r.out.val IN
         IF value.t # "str" THEN Res(r.m, Raised("TypeError"))
         ELSE LET value_f == IF FloatParses(value.s) THEN FloatV(FloatParse(value.s))
                             ELSE TypedDefault(default_val, "float")
              IN PersistDefault(r, section, key, value_f)

read_int(m, section, key, default_val, required) ==
    LET r == _read_conf(m, section, key, StrV(PyStr(default_val)), required) IN
    IF r.out.kind # "ok" THEN r
    ELSE LET value == r.out.val IN
         IF value.t # "str" THEN Res(r.m, Raised("TypeError"))
         ELSE LET value_i == IF IntParses(value.s) THEN IntV(IntParse(value.s))
                             ELSE TypedDefault(default_val, "int")
              IN PersistDefault(r, section, key, value_i)

\* json.loads of a str, for the literals true, false, null and numerals.
JsonIntParses(u) ==
    LET d == IF u # <<>> /\ Head(u) = "-" THEN Tail(u) ELSE u
    IN AllDigits(d) /\ (Len(d) = 1 \/ Head(d) # "0")
JsonFloatParses(u) ==
    LET p == PointAt(u) IN
    p > 1 /\ JsonIntParses(SubSeq(u, 1, p - 1)) /\ Len(u) = p + 1 /\ IsDigit(u[p + 1])
JsonStrip(s) == Strip(s)
JsonParses(s) ==
    LET u == JsonStrip(s) IN
    \/ u \in {<<"t", "r", "u", "e">>, <<"f", "a", "l", "s", "e">>, <<"n", "u", "l", "l">>}
    \/ JsonIntParses(u)
    \/ JsonFloatParses(u)
JsonParse(s) ==
    LET u == JsonStrip(s) IN
    IF u = <<"t", "r", "u", "e">> THEN BoolV(TRUE)
    ELSE IF u = <<"f", "a", "l", "s", "e">> THEN BoolV(FALSE)
    ELSE IF u = <<"n", "u", "l", "l">> THEN NoneV
    ELSE IF JsonIntParses(u) THEN IntV(IntParse(u))
    ELSE FloatV(FloatParse(u))

read_json(m, section, key) ==
    LET r == _read_conf(m, section, key, NoneV, TRUE) IN
    IF r.out.kind # "ok" THEN r
    ELSE LET ret == r.out.val IN
         IF ret.t # "str" THEN Res(r.m, Raised("TypeError"))
         ELSE IF JsonParses(ret.s) THEN Res(r.m, Ok(JsonParse(ret.s)))
         ELSE Res(r.m, Ok(NoneV))

\* x in y for strings: x is a substring of y.
IsSubstring(x, y) == \E i \in 0..(Len(y) - Len(x)) : SubSeq(y, i + 1, i + Len(x)) = x

\* The validator without its test of the length.
AnyPartOfYesNo(_i) == IsSubstring(_i, <<"Y", "y", "N", "n">>)
YES_NO_VALIDATOR(_i) == Len(_i) = 1 /\ IsSubstring(_i, <<"Y", "y", "N", "n">>)

\* One round of _prompt's loop with the validator and the default "y" that
\* _reload passes: the answer it returns, or no answer (it asks again).
NoAnswer == <<"?", "?">>
_prompt(_input) ==
    IF _input = <<>> THEN <<"y">>
    ELSE IF YES_NO_VALIDATOR(_input) THEN _input
    ELSE NoAnswer

(***************************************************************************)
(* The state machine: one accessor object, its file, a second path to      *)
(* export to, an operator at the console and an editor of the file.        *)
(***************************************************************************)
VARIABLES pc, config, fs, reloaded, saved, op, ret, answer, nops, nedits, nprompts

vars == <<pc, config, fs, reloaded, saved, op, ret, answer, nops, nedits, nprompts>>

MaxOps == 2
MaxEdits == 1
MaxPrompts == 2

\* The (section, key) names the callers pass: two sections, two keys (one
\* spelt in upper case), an empty section name and an empty key name.
NameArgs == { <<"s", <<"a">>>>, <<"s", <<"B">>>>, <<"t", <<"a">>>>,
              <<"", <<"a">>>>, <<"s", <<>>>> }
WriteVals == {<<"4", "2">>, <<" ", "x">>, <<"%", "%">>}
ReadDefaults == {NoneV, StrV(<<" ", "x">>)}
TypedDefaults == {NoneV, BoolV(TRUE), IntV(42), FloatV(15)}
\* The typed accessors pass str(default_val), never None, to _read_conf, so
\* required cannot change what they do; they are called with the default.
TypedRequired == {TRUE}
PromptInputs == {<<>>, <<"y">>, <<"Y">>, <<"n">>, <<"N">>, <<"x">>, <<"y", "N">>}
\* What an editor may put in the file (as the parser reads it back).
FileSections == {"s", "t"}
FileKeys == {<<"a">>, <<"b">>}
FileVals == {<<"5", "%">>, <<"7">>}
ExistingConfigFiles ==
    { FileOf(EmptyStore),
      FileOf(<<[name |-> "s", opts |-> <<[k |-> <<"b">>, v |-> <<"x">>],
                                          [k |-> <<"a">>, v |-> <<"4", "2">>]>>]>>) }
OtherFiles == {NoFile, FileOf(<<[name |-> "t", opts |-> <<>>]>>)}

Label(name, section, key, arg, flag, path) ==
    [name |-> name, section |-> section, key |-> key, arg |-> arg, flag |-> flag, path |-> path]
NoOp == Label("", "", <<>>, NoneV, FALSE, "")

InitWith(configFiles) ==
    /\ pc = "new"
    /\ config = EmptyStore
    /\ fs \in {f \in [Paths -> configFiles \cup OtherFiles] :
                  f[ConfigPath] \in configFiles /\ f[OtherPath] \in OtherFiles}
    /\ reloaded = EmptyStore
    /\ saved = FALSE
    /\ op = NoOp
    /\ ret = Ok(NoneV)
    /\ answer = NoAnswer
    /\ nops = 0
    /\ nedits = 0
    /\ nprompts = 0

\* The accessor is built on a file that exists.
Init == InitWith(ExistingConfigFiles)
\* The accessor is built on a path that may hold no file.
InitLifecycle == InitWith(ExistingConfigFiles \cup {NoFile})

Machine == [config |-> config, fs |-> fs, reloaded |-> reloaded, saved |-> FALSE]

\* __init__: self._config = ConfigParser(); self._reload(encoding, force_quit=False)
Construct ==
    /\ pc = "new"
    /\ IF fs[ConfigPath].exists
       THEN /\ config' = ReadInto(config, fs[ConfigPath].data)
            /\ reloaded' = config'
            /\ pc' = "ready"
       ELSE /\ pc' = "prompt"
            /\ UNCHANGED <<config, reloaded>>
    /\ UNCHANGED <<fs, saved, op, ret, answer, nops, nedits, nprompts>>

\* One input() of the prompt _reload opens when the file is missing, and,
\* once _prompt returns, the rest of _reload.
Prompt(_input) ==
    /\ pc = "prompt"
    /\ nprompts < MaxPrompts
    /\ nprompts' = nprompts + 1
    /\ LET _i == _prompt(_input) IN
       /\ answer' = _input
       /\ IF _i = NoAnswer
          THEN UNCHANGED <<pc, fs>>
          ELSE /\ pc' = "ready"
               /\ fs' = IF IsSubstring(_i, <<"Y", "y">>)
                        THEN export(Machine, ConfigPath, FALSE).m.fs
                        ELSE fs
    /\ UNCHANGED <<config, reloaded, saved, op, ret, nops, nedits>>

\* A call of a public method ends: the object and the files are as the
\* method left them; exit(1) ends the process.
Return(r, label) ==
    /\ pc = "ready"
    /\ nops < MaxOps
    /\ nops' = nops + 1
    /\ pc' = IF r.out.kind = "exit" THEN "exited" ELSE "ready"
    /\ config' = r.m.config
    /\ fs' = r.m.fs
    /\ reloaded' = r.m.reloaded
    /\ saved' = r.m.saved
    /\ ret' = r.out
    /\ op' = label
    /\ UNCHANGED <<answer, nedits, nprompts>>

Write(section, key, value, store) ==
    Return(write(Machine, section, key, value, store),
           Label("write", section, key, StrV(value), store, ""))

Read(section, key, default_val, required) ==
    Return(read(Machine, section, key, default_val, required),
           Label("read", section, key, default_val, required, ""))

ReadBool(section, key, default_val, required) ==
    Return(read_bool(Machine, section, key, default_val, required),
           Label("read_bool", section, key, default_val, required, ""))

ReadFloat(section, key, default_val, required) ==
    Return(read_float(Machine, section, key, default_val, required),
           Label("read_float", section, key, default_val, required, ""))

ReadInt(section, key, default_val, required) ==
    Return(read_int(Machine, section, key, default_val, required),
           Label("read_int", section, key, default_val, required, ""))

ReadJson(section, key) ==
    Return(read_json(Machine, section, key),
           Label("read_json", section, key, NoneV, TRUE, ""))

Export(configure_path, force) ==
    Return(export(Machine, configure_path, force),
           Label("export", "", <<>>, NoneV, force, configure_path))

\* Somebody else edits the configuration file between two calls.
Edited(data) ==
    /\ pc = "ready"
    /\ fs[ConfigPath].exists
    /\ nedits < MaxEdits
    /\ nedits' = nedits + 1
    /\ fs' = [fs EXCEPT ![ConfigPath] = FileOf(data)]
    /\ UNCHANGED <<pc, config, reloaded, saved, op, ret, answer, nops, nprompts>>

EditSet(sec, k, v) ==
    LET d == fs[ConfigPath].data
        d1 == IF HasSection(d, sec) THEN d ELSE add_section(d, sec)
    IN /\ ~(HasOption(d, sec, k) /\ RawValue(d, sec, k) = v)
       /\ Edited(WithOptions(d1, sec, SetOpt(OptionsOf(d1, sec), k, v)))

EditRemoveKey(sec, k) ==
    LET d == fs[ConfigPath].data
    IN /\ HasOption(d, sec, k)
       /\ Edited(WithOptions(d, sec, DelOpt(OptionsOf(d, sec), k)))

EditRemoveSection(sec) ==
    LET d == fs[ConfigPath].data
    IN /\ HasSection(d, sec)
       /\ Edited(SelectSeq(d, LAMBDA s : s.name # sec))

DoPrompt == \E _input \in PromptInputs : Prompt(_input)
DoWrite == \E n \in NameArgs, value \in WriteVals, store \in BOOLEAN : Write(n[1], n[2], value, store)
DoRead == \E n \in NameArgs, d \in ReadDefaults, required \in BOOLEAN : Read(n[1], n[2], d, required)
DoReadBool == \E n \in NameArgs, d \in TypedDefaults, required \in TypedRequired : ReadBool(n[1], n[2], d, required)
DoReadFloat == \E n \in NameArgs, d \in TypedDefaults, required \in TypedRequired : ReadFloat(n[1], n[2], d, required)
DoReadInt == \E n \in NameArgs, d \in TypedDefaults, required \in TypedRequired : ReadInt(n[1], n[2], d, required)
DoReadJson == \E n \in NameArgs : ReadJson(n[1], n[2])
DoExport == \E path \in Paths, force \in BOOLEAN : Export(path, force)
DoEditSet == \E sec \in FileSections, k \in FileKeys, v \in FileVals : EditSet(sec, k, v)
DoEditRemoveKey == \E sec \in FileSections, k \in FileKeys : EditRemoveKey(sec, k)
DoEditRemoveSection == \E sec \in FileSections : EditRemoveSection(sec)
DoEdit == DoEditSet \/ DoEditRemoveKey \/ DoEditRemoveSection

\* The store: string reads, writes, exports and edits of the file.
Next == Construct \/ DoWrite \/ DoRead \/ DoExport \/ DoEdit
Spec == Init /\ [][Next]_vars

\* The typed accessors.
NextTyped == Construct \/ DoRead \/ DoReadBool \/ DoReadFloat \/ DoReadInt \/ DoReadJson \/ DoEdit
SpecTyped == Init /\ [][NextTyped]_vars

\* Construction, with the prompt when the file is missing, and what a
\* caller finds afterwards.
NextLifecycle == Construct \/ DoPrompt \/ DoWrite \/ DoRead \/ DoExport
SpecLifecycle == InitLifecycle /\ [][NextLifecycle]_vars

(***************************************************************************)
(* Properties                                                              *)
(***************************************************************************)
Called == nops' = nops + 1
Readers == {"read", "read_bool", "read_int", "read_float"}
Named(o) == o.section # "" /\ o.key # <<>>
SameName(o1, o2) == o1.section = o2.section /\ optionxform(o1.key) = optionxform(o2.key)
InFile(files, o) == files[ConfigPath].exists /\ Present(files[ConfigPath].data, o.section, o.key)
FileRaw(files, o) == RawValue(files[ConfigPath].data, o.section, optionxform(o.key))
\* The file is as the last save of the store left it.
FileAsSaved == fs[ConfigPath] = FileOf(FileForm(config))
Triples(st) ==
    UNION {{<<st[i].name, st[i].opts[j].k, st[i].opts[j].v>> : j \in 1..Len(st[i].opts)} :
              i \in 1..Len(st)}
SameContent(a, b) == SectionNames(a) = SectionNames(b) /\ Triples(a) = Triples(b)
AllSorted(st) == \A i \in 1..Len(st) : IsSortedOpts(st[i].opts)

\* What is stored under the name of call o once the file has been reloaded.
StoredFor(o) ==
    IF InFile(fs, o) THEN FileRaw(fs, o)
    ELSE RawValue(config, o.section, optionxform(o.key))
AbsentFor(o) == ~InFile(fs, o) /\ ~Present(config, o.section, o.key)
TypeOf(name) ==
    CASE name = "read" -> "str"
      [] name = "read_bool" -> "bool"
      [] name = "read_int" -> "int"
      [] name = "read_float" -> "float"

\* C1: after write(section, key, value), store left true, has returned, the
\* next read(section, key) with no default returns exactly value, whatever
\* the store held before the write.
C1_RoundTrip ==
    [][ ( /\ op.name = "write" /\ op.flag /\ ret.kind = "ok"
          /\ FileAsSaved
          /\ Called /\ op'.name = "read" /\ op'.arg = NoneV /\ SameName(op', op) )
        => ret' = Ok(op.arg) ]_vars

\* C2: a read, read_bool, read_int or read_float of a name absent from the
\* store, given a default (of the accessor's type), returns the default and
\* persists its string form under that name in memory and in the file, and
\* the next raw read of the name returns that string.
C2_DefaultPersisted ==
    [][ /\ ( ( /\ Called /\ op'.name \in Readers /\ Named(op')
               /\ op'.arg # NoneV /\ op'.arg.t = TypeOf(op'.name)
               /\ AbsentFor(op') )
             => /\ ret' = Ok(op'.arg)
                /\ Present(config', op'.section, op'.key)
                /\ RawValue(config', op'.section, optionxform(op'.key)) = PyStr(op'.arg)
                /\ InFile(fs', op') )
        /\ ( ( /\ op.name \in Readers /\ saved /\ ret.kind = "ok"
               /\ FileAsSaved
               /\ Called /\ op'.name = "read" /\ op'.arg = NoneV /\ SameName(op', op) )
             => ret' = Ok(StrV(PyStr(ret.val))) ) ]_vars

C5_Export ==
    [][ (Called /\ op'.name = "export")
        => /\ config' = config
           /\ IF fs[op'.path].exists /\ ~op'.flag
              THEN ret' = Ok(BoolV(FALSE)) /\ fs' = fs
              ELSE /\ ret' = Ok(BoolV(TRUE))
                   /\ fs'[op'.path] = FileOf(FileForm(config))
                   /\ \A q \in Paths \ {op'.path} : fs'[q] = fs[q] ]_vars

\* export refused to overwrite a file that differs from the store.
C5_Witness ==
    /\ op.name = "export" /\ ~op.flag
    /\ ret = Ok(BoolV(FALSE))
    /\ config # EmptyStore
    /\ fs[op.path] # FileOf(FileForm(config))

\* C6: a read or write reloads the file before acting, so that right after
\* the reload the in-memory store holds the sections, keys and values of the
\* file, whatever edit was made to the file since the store was loaded
\* (stated for the first call after construction).
C6_ReloadMirrorsFile ==
    [][ ( /\ nops = 0 /\ Called /\ op'.name \in {"read", "write"} /\ ret'.kind # "exit" )
        => SameContent(reloaded', fs[ConfigPath].data) ]_vars

\* What C7 says a typed accessor returns for the stored string s and the
\* default d.
Coerced(name, s, d) ==
    CASE name = "read_bool" ->
            IF Upper(s) = <<"T", "R", "U", "E">> THEN BoolV(TRUE)
            ELSE IF Upper(s) = <<"F", "A", "L", "S", "E">> THEN BoolV(FALSE)
            ELSE TypedDefault(d, "bool")
      [] name = "read_int" ->
            IF IntParses(s) THEN IntV(IntParse(s)) ELSE TypedDefault(d, "int")
      [] name = "read_float" ->
            IF FloatParses(s) THEN FloatV(FloatParse(s)) ELSE TypedDefault(d, "float")

\* C7: for a name present in the store, read_bool, read_int and read_float
\* return the coerced stored string, or, when it cannot be coerced, the
\* default if it is of the accessor's type and None otherwise; the stored
\* value stays as it is in memory and in the file.
C7_TypedCoercion ==
    [][ ( /\ Called /\ op'.name \in {"read_bool", "read_int", "read_float"} /\ Named(op')
          /\ ~AbsentFor(op') )
        => /\ ret' = Ok(Coerced(op'.name, StoredFor(op'), op'.arg))
           /\ fs' = fs
           /\ RawValue(config', op'.section, optionxform(op'.key)) = StoredFor(op') ]_vars

\* C8: while the configuration file exists, no call of read, read_bool,
\* read_int, read_float or read_json raises or ends the process: each
\* returns a value or None.
C8_NoReadFails ==
    (op.name \in Readers \cup {"read_json"}) => ret.kind = "ok"

AcceptedInputs == {<<>>, <<"y">>, <<"Y">>, <<"n">>, <<"N">>}
YesInputs == {<<>>, <<"y">>, <<"Y">>}

\* C9: construction on a missing file prompts until the input is blank or
\* one of y, Y, n, N; the file is created, empty, exactly when the accepted
\* input is blank, y or Y; construction never ends the process.
C9_Construction ==
    [][ /\ (pc \in {"new", "prompt"}) => (pc' \in {"new", "prompt", "ready"})
        /\ (pc = "prompt" /\ nprompts' = nprompts + 1)
           => /\ (pc' = "prompt") <=> (answer' \notin AcceptedInputs)
              /\ (pc' = "ready") <=> (answer' \in AcceptedInputs)
              /\ config' = EmptyStore
              /\ IF answer' \in YesInputs
                 THEN fs' = [fs EXCEPT ![ConfigPath] = FileOf(EmptyStore)]
                 ELSE fs' = fs ]_vars

\* The operator's first input was refused, the second, blank, created the
\* file.
C9_Witness ==
    /\ pc = "ready" /\ nops = 0
    /\ nprompts = 2 /\ answer = <<>>
    /\ fs[ConfigPath] = FileOf(EmptyStore)
    /\ config = EmptyStore

\* C10: after write(section, key, value, store=false) has returned, the next
\* read(section, key) returns value for every state of the file (stated for
\* values without "%").
C10_UnsavedVisible ==
    [][ ( /\ op.name = "write" /\ ~op.flag /\ ret.kind = "ok"
          /\ ~InSeq("%", op.arg.s)
          /\ Called /\ op'.name = "read" /\ op'.arg = NoneV /\ SameName(op', op) )
        => ret' = Ok(op.arg) ]_vars

====
